---- MODULE Spec2Model ----
(***************************************************************************)
(* A model of botsarchive.Client (src/botsarchive/client.py): the four     *)
(* endpoint methods, close(), the Bot mapping and the Python conversions   *)
(* they rely on (bool(), int(), str.split(), str.lstrip(), f-strings).     *)
(*                                                                         *)
(* A Python/JSON value is a tagged record:                                 *)
(*   [t |-> "null"]            None / null                                 *)
(*   [t |-> "bool", b |-> B]   True / False                                *)
(*   [t |-> "int",  n |-> N]   an integer                                  *)
(*   [t |-> "float", f |-> F] a float, F its value in tenths              *)
(*   [t |-> "str",  s |-> S]   a string, S the sequence of its characters  *)
(*                             (a long literal is kept as one atom)        *)
(*   [t |-> "list", l |-> L]   a JSON array                                *)
(*   [t |-> "obj",  o |-> O]   a JSON object, DOMAIN O its keys            *)
(***************************************************************************)
EXTENDS Integers, Sequences, FiniteSets, TLC

\* ------------------------------------------------------------- bounds
\* Longest raw `tags` string drawn, in characters.
MaxTagLen == 3
\* Longest `result` array of a search response drawn.
MaxResults == 2
\* Facade calls in flight on one client at the same time.
MaxCalls == 2
\* Times close() is called over the client's lifetime.
MaxCloseCalls == 2

\* ------------------------------------------------------------- values
JNull == [t |-> "null"]
JBool(b) == [t |-> "bool", b |-> b]
JInt(n) == [t |-> "int", n |-> n]
JStr(s) == [t |-> "str", s |-> s]
JList(l) == [t |-> "list", l |-> l]
JObj(o) == [t |-> "obj", o |-> o]
\* A float, kept in tenths: JFloat(41) is 4.1.
JFloat(f) == [t |-> "float", f |-> f]

PyNone == JNull

Whitespace == {" ", "\t", "\n"}

DigitValue ==
  [d \in {"0", "1", "2", "3", "4", "5", "6", "7", "8", "9"} |->
     CASE d = "0" -> 0 [] d = "1" -> 1 [] d = "2" -> 2 [] d = "3" -> 3
       [] d = "4" -> 4 [] d = "5" -> 5 [] d = "6" -> 6 [] d = "7" -> 7
       [] d = "8" -> 8 [] d = "9" -> 9]

DigitChar == <<"0", "1", "2", "3", "4", "5", "6", "7", "8", "9">>

\* A call's outcome: a returned value or a raised exception.  `decoded`
\* says whether response.json() ran, `built` counts the Bot records that
\* were constructed, `interpreted` says whether the vote branches ran.
Returned(v, built, interpreted) ==
  [status |-> "returned", value |-> v, decoded |-> TRUE,
   built |-> built, interpreted |-> interpreted]

Raised(exc, arg, decoded, built, interpreted) ==
  [status |-> "raised", exc |-> exc, arg |-> arg, decoded |-> decoded,
   built |-> built, interpreted |-> interpreted]

\* ------------------------------------------------- Python conversions
\* bool(v)
Truthy(v) ==
  CASE v.t = "null" -> FALSE
    [] v.t = "bool" -> v.b
    [] v.t = "int" -> v.n # 0
    [] v.t = "float" -> v.f # 0
    [] v.t = "str" -> v.s # <<>>
    [] v.t = "list" -> v.l # <<>>
    [] v.t = "obj" -> DOMAIN v.o # {}

RECURSIVE LStripWs(_)
LStripWs(s) ==
  IF s # <<>> /\ Head(s) \in Whitespace THEN LStripWs(Tail(s)) ELSE s

RECURSIVE RStripWs(_)
RStripWs(s) ==
  IF s # <<>> /\ s[Len(s)] \in Whitespace
    THEN RStripWs(SubSeq(s, 1, Len(s) - 1))
    ELSE s

RECURSIVE DigitsValue(_, _)
DigitsValue(s, acc) ==
  IF s = <<>> THEN acc ELSE DigitsValue(Tail(s), 10 * acc + DigitValue[Head(s)])

\* int() of the digits of a numeral, negated when negative is TRUE.
ParseDigits(digits, negative) ==
  IF digits # <<>> /\ \A i \in 1..Len(digits) : digits[i] \in DOMAIN DigitValue
    THEN [ok |-> TRUE,
          n |-> IF negative THEN 0 - DigitsValue(digits, 0) ELSE DigitsValue(digits, 0)]
    ELSE [ok |-> FALSE, exc |-> "ValueError"]

\* int() of a string whose surrounding whitespace is gone: an optional
\* sign, then digits.
ParseInt(body) ==
  IF body # <<>> /\ Head(body) \in {"+", "-"}
    THEN ParseDigits(Tail(body), Head(body) = "-")
    ELSE ParseDigits(body, FALSE)

\* int(v): [ok |-> TRUE, n |-> N] or [ok |-> FALSE, exc |-> E].
PyInt(v) ==
  CASE v.t = "int" -> [ok |-> TRUE, n |-> v.n]
    [] v.t = "bool" -> [ok |-> TRUE, n |-> IF v.b THEN 1 ELSE 0]
    [] v.t = "float" ->
         [ok |-> TRUE, n |-> IF v.f < 0 THEN 0 - ((0 - v.f) \div 10) ELSE v.f \div 10]
    [] v.t = "str" -> ParseInt(RStripWs(LStripWs(v.s)))
    [] OTHER -> [ok |-> FALSE, exc |-> "TypeError"]

RECURSIVE NatStr(_)
NatStr(n) ==
  IF n < 10 THEN <<DigitChar[n + 1]>>
  ELSE NatStr(n \div 10) \o <<DigitChar[(n % 10) + 1]>>

\* The text an f-string puts for {v}.
Format(v) ==
  CASE v.t = "str" -> v.s
    [] v.t = "int" -> IF v.n < 0 THEN <<"-">> \o NatStr(0 - v.n) ELSE NatStr(v.n)
    [] v.t = "bool" -> IF v.b THEN <<"True">> ELSE <<"False">>
    [] v.t = "null" -> <<"None">>
    [] OTHER -> <<"<repr>">>

\* str.split(): the maximal runs of non-whitespace characters, in order.
RECURSIVE SplitFrom(_, _, _)
SplitFrom(s, cur, acc) ==
  IF s = <<>>
    THEN IF cur = <<>> THEN acc ELSE Append(acc, cur)
    ELSE IF Head(s) \in Whitespace
           THEN SplitFrom(Tail(s), <<>>, IF cur = <<>> THEN acc ELSE Append(acc, cur))
           ELSE SplitFrom(Tail(s), Append(cur, Head(s)), acc)

Split(s) == SplitFrom(s, <<>>, <<>>)

\* word.removeprefix("#"): at most one leading "#" goes.
StripOneHash(w) ==
  IF w # <<>> /\ Head(w) = "#" THEN Tail(w) ELSE w

\* word.lstrip("#"): every leading "#" goes.
RECURSIVE LStripHash(_)
LStripHash(w) ==
  IF w # <<>> /\ Head(w) = "#" THEN LStripHash(Tail(w)) ELSE w

\* ------------------------------------------------------ configuration
API_BASE_URL == <<"https://api.botsarchive.com">>
PHOTO_BASE_URL == <<"https://www.botsarchive.com/img">>
DefaultTimeout == 60

\* Client.__init__: the configuration it stores and the transport handle
\* it opens with it.
ClientInit(api, photo, prox, tmo) ==
  [api_base_url |-> api, photo_base_url |-> photo, proxies |-> prox,
   timeout |-> tmo,
   client |-> [state |-> "open", proxies |-> prox, timeout |-> tmo]]

\* enums.Category: member name |-> value.
Category ==
  [m \in {"MUSIC", "UTILITY", "GAMES", "STATISTICS", "POLL", "TELEGRAM",
          "FILES", "FUN", "INFO", "NOTIFICATION", "MANAGING", "MEDIA"} |->
     CASE m = "MUSIC" -> <<"music">>
       [] m = "UTILITY" -> <<"utility">>
       [] m = "GAMES" -> <<"games">>
       [] m = "STATISTICS" -> <<"stats">>
       [] m = "POLL" -> <<"poll">>
       [] m = "TELEGRAM" -> <<"Telegram">>
       [] m = "FILES" -> <<"file">>
       [] m = "FUN" -> <<"entertainment">>
       [] m = "INFO" -> <<"info">>
       [] m = "NOTIFICATION" -> <<"notifications">>
       [] m = "MANAGING" -> <<"manager">>
       [] m = "MEDIA" -> <<"media">>]

\* ------------------------------------------------------- Bot mapping
\* types.Bot: the fields, in the order the constructor calls evaluate them.
BotFields ==
  <<"id", "name", "username", "description", "warn", "msg", "category",
    "groups", "inline", "developer_id", "stars", "votes", "vote", "tags",
    "languages", "offline", "photo", "photo_url">>

Ok(v) == [ok |-> TRUE, v |-> v]
Err(exc, arg) == [ok |-> FALSE, exc |-> exc, arg |-> arg]

\* bool(n) of an int() result p, or the exception int() raised.
BoolOfInt(p) == IF p.ok THEN Ok(p.n # 0) ELSE Err(p.exc, "int")

\* The int() result p as a field value, or the exception int() raised.
IntOf(p) == IF p.ok THEN Ok(p.n) ELSE Err(p.exc, "int")

\* bool(int(raw)): groups and inline coerced the way offline is.
BoolViaInt(raw) == BoolOfInt(PyInt(raw))

\* groups=bool(info["groups"]), inline=bool(info["inline"])
BoolField(raw) == Ok(Truthy(raw))

\* offline=bool(int(info["offline"]))
OfflineField(raw) == BoolOfInt(PyInt(raw))

\* developer_id=int(info["developer_id"])
IntField(raw) == IntOf(PyInt(raw))

\* [word.removeprefix("#") for word in words]
StripOneEach(words) == [i \in 1..Len(words) |-> StripOneHash(words[i])]

\* [word.lstrip("#") for word in words]
LStripEach(words) == [i \in 1..Len(words) |-> LStripHash(words[i])]

\* The tags with one leading "#" less per token.
TagsStripOne(raw) ==
  IF raw.t = "str" THEN Ok(StripOneEach(Split(raw.s)))
  ELSE Err("AttributeError", "split")

\* tags=[word.lstrip("#") for word in info["tags"].split()]
TagsField(raw) ==
  IF raw.t = "str" THEN Ok(LStripEach(Split(raw.s)))
  ELSE Err("AttributeError", "split")

\* languages=info["languages"].split()
LanguagesField(raw) ==
  IF raw.t = "str" THEN Ok(Split(raw.s)) ELSE Err("AttributeError", "split")

\* f"{self.photo_base_url}/{id}.jpg"
PhotoUrl(photo_base_url, id) ==
  JStr(photo_base_url \o <<"/">> \o Format(id) \o <<".jpg">>)

\* A photo_url built whatever photo says.
PhotoUrlAlways(photo_base_url, info) ==
  IF {"id", "photo"} \subseteq DOMAIN info
    THEN Ok(PhotoUrl(photo_base_url, info["id"]))
    ELSE Ok(PyNone)

\* photo_url=f"{self.photo_base_url}/{info['id']}.jpg" if info["photo"] else None
\* It is the last argument: info["id"] and info["photo"] were read before
\* it, so a missing key has raised by then and the value here is not used.
PhotoUrlField(photo_base_url, info) ==
  IF {"id", "photo"} \subseteq DOMAIN info /\ Truthy(info["photo"])
    THEN Ok(PhotoUrl(photo_base_url, info["id"]))
    ELSE Ok(PyNone)

\* The coercion the constructor call applies to the raw value of a field.
Coerce(field, raw) ==
  CASE field \in {"groups", "inline"} -> BoolField(raw)
    [] field = "developer_id" -> IntField(raw)
    [] field = "tags" -> TagsField(raw)
    [] field = "languages" -> LanguagesField(raw)
    [] field = "offline" -> OfflineField(raw)
    [] OTHER -> Ok(raw)

\* One keyword argument of types.Bot(...), evaluated on the JSON object info.
\* with_photo_url is FALSE on the category_search path, which passes no
\* photo_url and so leaves the dataclass default None.
BotArg(photo_base_url, info, field, with_photo_url) ==
  IF field = "photo_url"
    THEN IF with_photo_url THEN PhotoUrlField(photo_base_url, info) ELSE Ok(PyNone)
    ELSE IF field \in DOMAIN info THEN Coerce(field, info[field])
    ELSE Err("KeyError", field)

\* The Bot whose keyword arguments evaluated to a (field |-> result), or
\* the first exception among them: Python evaluates them in order.
BuildBot(a) ==
  IF \E i \in 1..Len(BotFields) : ~a[BotFields[i]].ok
    THEN LET i == CHOOSE k \in 1..Len(BotFields) :
                    /\ ~a[BotFields[k]].ok
                    /\ \A j \in 1..(k - 1) : a[BotFields[j]].ok
         IN Err(a[BotFields[i]].exc, a[BotFields[i]].arg)
    ELSE Ok([f \in DOMAIN a |-> a[f].v])

\* types.Bot(...) on one JSON object: the record, or the exception raised.
MapBot(photo_base_url, info, with_photo_url) ==
  BuildBot([f \in {BotFields[i] : i \in 1..Len(BotFields)} |->
              BotArg(photo_base_url, info, f, with_photo_url)])

\* ------------------------------------------------------- the methods
\* What `await self.client.get(url, params=params)` gives a call: the
\* transport raises, or hands back a response with a status and a body.
NetErr(exc) == [t |-> "neterr", exc |-> exc]
Http(status, body) == [t |-> "http", status |-> status, body |-> body]
Json(data) == [json |-> TRUE, data |-> data]
NotJson == [json |-> FALSE]

ErrOutcome(exc, arg, decoded) ==
  [ok |-> FALSE, exc |-> exc, arg |-> arg, decoded |-> decoded]

\* The body decoded whatever the status.
FetchIgnoringStatus(r) ==
  IF r.t = "neterr" THEN ErrOutcome(r.exc, JStr(<<"get">>), FALSE)
  ELSE IF ~r.body.json THEN ErrOutcome("JSONDecodeError", JStr(<<"json">>), TRUE)
  ELSE Ok(r.body.data)

\* response = await self.client.get(...); response.raise_for_status();
\* data = response.json()
Fetch(r) ==
  IF r.t = "neterr" THEN ErrOutcome(r.exc, JStr(<<"get">>), FALSE)
  ELSE IF r.status \notin 200..299
    THEN ErrOutcome("HTTPStatusError", JStr(<<"raise_for_status">>), FALSE)
  ELSE IF ~r.body.json THEN ErrOutcome("JSONDecodeError", JStr(<<"json">>), TRUE)
  ELSE Ok(r.body.data)

BotNotFoundMessage == JStr(<<"bot not found">>)

\* The sentinel honoured only when the body has no result.
IsBotNotFoundUnlessResult(data) ==
  /\ "message" \in DOMAIN data
  /\ data["message"] = BotNotFoundMessage
  /\ "result" \notin DOMAIN data

\* "message" in data and data["message"] == "bot not found"
IsBotNotFound(data) ==
  /\ "message" \in DOMAIN data
  /\ data["message"] = BotNotFoundMessage

BotValue(bot) == [t |-> "bot", bot |-> bot]

\* An empty list where the methods return None.
NoResultsEmptyList == JList(<<>>)

\* `return None` of search and category_search
NoResults == PyNone

\* The url and params a method passes to self.client.get.
Request(method, api_base_url, arg) ==
  CASE method = "get_bot_id" ->
         [url |-> api_base_url \o <<"/getBotID.php">>,
          params |-> [username |-> arg.username]]
    [] method = "get_user_vote" ->
         [url |-> api_base_url \o <<"/getUserVote.php">>,
          params |-> [bot_id |-> arg.bot_id, user_id |-> arg.user_id]]
    [] method = "search" ->
         [url |-> api_base_url \o <<"/search.php">>, params |-> [q |-> arg.query]]
    [] method = "category_search" ->
         [url |-> api_base_url \o <<"/getCategory.php">>,
          params |-> [category |-> IF arg.category.t = "enum"
                                     THEN Category[arg.category.m]
                                     ELSE arg.category.s]]

\* A call's outcome when fetching failed with f.
FetchFailed(f) == Raised(f.exc, f.arg, f.decoded, 0, FALSE)

\* `return result` of get_bot_id, or the exception types.Bot(...) raised.
BotOutcome(m) ==
  IF m.ok THEN Returned(BotValue(m.v), 1, FALSE)
  ELSE Raised(m.exc, JStr(<<m.arg>>), TRUE, 0, FALSE)

\* get_bot_id on the decoded body.
get_bot_id_data(photo_base_url, data) ==
  IF IsBotNotFound(data)
    THEN Raised("BotNotFound", data["message"], TRUE, 0, FALSE)
  ELSE IF "result" \notin DOMAIN data
    THEN Raised("KeyError", JStr(<<"result">>), TRUE, 0, FALSE)
  ELSE IF data["result"].t # "obj"
    THEN Raised("TypeError", JStr(<<"id">>), TRUE, 0, FALSE)
  ELSE BotOutcome(MapBot(photo_base_url, data["result"].o, TRUE))

\* get_bot_id from the point its GET completed, f what Fetch made of it.
get_bot_id(photo_base_url, f) ==
  IF ~f.ok THEN FetchFailed(f) ELSE get_bot_id_data(photo_base_url, f.v)

\* result = int(...) of get_user_vote, or the exception int() raised.
IntOutcome(p) ==
  IF p.ok THEN Returned(JInt(p.n), 0, TRUE)
  ELSE Raised(p.exc, JStr(<<"int">>), TRUE, 0, TRUE)

\* The vote branch tested before the result branch.
VoteOutcomeVoteFirst(data) ==
  IF "vote" \in DOMAIN data THEN Returned(JBool(FALSE), 0, TRUE)
  ELSE IF "result" \in DOMAIN data THEN IntOutcome(PyInt(data["result"]))
  ELSE Returned(PyNone, 0, TRUE)

\* if "result" in data: int(data["result"]) / elif "vote" in data: False /
\* else: None
VoteOutcome(data) ==
  IF "result" \in DOMAIN data THEN IntOutcome(PyInt(data["result"]))
  ELSE IF "vote" \in DOMAIN data THEN Returned(JBool(FALSE), 0, TRUE)
  ELSE Returned(PyNone, 0, TRUE)

\* get_user_vote on the decoded body.
get_user_vote_data(data) ==
  IF IsBotNotFound(data)
    THEN Raised("BotNotFound", data["message"], TRUE, 0, FALSE)
  ELSE VoteOutcome(data)

\* get_user_vote from the point its GET completed.
get_user_vote(f) ==
  IF ~f.ok THEN FetchFailed(f) ELSE get_user_vote_data(f.v)

\* One element of data["result"] mapped: a JSON object goes through
\* types.Bot(...), anything else fails at info["id"].
MapElement(photo_base_url, info, with_photo_url) ==
  IF info.t = "obj" THEN MapBot(photo_base_url, info.o, with_photo_url)
  ELSE Err("TypeError", "id")

\* The loop `for info in ...: bot = types.Bot(...); result.append(bot)`,
\* ms[i] what mapping element i gives: the list, or the first exception
\* with the Bots built before it.
Collect(ms) ==
  IF \E i \in 1..Len(ms) : ~ms[i].ok
    THEN LET i == CHOOSE k \in 1..Len(ms) :
                    ~ms[k].ok /\ \A j \in 1..(k - 1) : ms[j].ok
         IN Raised(ms[i].exc, JStr(<<ms[i].arg>>), TRUE, i - 1, FALSE)
    ELSE Returned(JList([i \in 1..Len(ms) |-> BotValue(ms[i].v)]), Len(ms), FALSE)

\* search and category_search on the decoded body: the first with
\* photo_url, the second without.
MapResults(photo_base_url, data, with_photo_url) ==
  IF "result" \notin DOMAIN data
    THEN Raised("KeyError", JStr(<<"result">>), TRUE, 0, FALSE)
  ELSE IF ~Truthy(data["result"]) THEN Returned(NoResults, 0, FALSE)
  ELSE IF data["result"].t # "list"
    THEN Raised("TypeError", JStr(<<"iter">>), TRUE, 0, FALSE)
  ELSE Collect([i \in 1..Len(data["result"].l) |->
                  MapElement(photo_base_url, data["result"].l[i], with_photo_url)])

\* search from the point its GET completed.
search(photo_base_url, f) ==
  IF ~f.ok THEN FetchFailed(f) ELSE MapResults(photo_base_url, f.v, TRUE)

\* category_search from the point its GET completed.
category_search(photo_base_url, f) ==
  IF ~f.ok THEN FetchFailed(f) ELSE MapResults(photo_base_url, f.v, FALSE)

\* The method a call runs, from the point its GET completed with r.
Resumed(method, photo_base_url, r) ==
  CASE method = "get_bot_id" -> get_bot_id(photo_base_url, Fetch(r))
    [] method = "get_user_vote" -> get_user_vote(Fetch(r))
    [] method = "search" -> search(photo_base_url, Fetch(r))
    [] method = "category_search" -> category_search(photo_base_url, Fetch(r))

\* ------------------------------------------------------------ inputs
Chars(n, alphabet) == UNION {[1..k -> alphabet] : k \in 0..n}

\* Raw `tags` strings: every string over these characters, up to MaxTagLen.
TagChars == {"#", "a", "b", " "}
TagStrings == Chars(MaxTagLen, TagChars)

\* The JSON object of the bot the docstring of get_bot_id shows.
BaseInfo ==
  [id |-> JInt(1),
   name |-> JStr(<<"Votebot">>),
   username |-> JStr(<<"@vote">>),
   description |-> JStr(<<"Votebot creates polls.">>),
   warn |-> JNull,
   msg |-> JStr(<<"http://t.me/BotsArchive/79">>),
   category |-> JList(<<JStr(<<"poll">>)>>),
   groups |-> JInt(0),
   inline |-> JInt(1),
   developer_id |-> JInt(0),
   stars |-> JInt(770),
   votes |-> JInt(189),
   vote |-> JFloat(41),
   tags |-> JStr(<<"#", "a", " ", "#", "b">>),
   languages |-> JStr(<<"English">>),
   offline |-> JStr(<<"0">>),
   photo |-> JBool(TRUE)]

Without(info, key) == [k \in DOMAIN info \ {key} |-> info[k]]

Scalars ==
  {JNull, JBool(TRUE), JBool(FALSE), JInt(0), JInt(1), JInt(2), JFloat(0),
   JFloat(15), JStr(<<>>), JStr(<<"0">>), JStr(<<"1">>), JStr(<<"x">>)}

\* Bot objects a response may carry: the base object with one field (or
\* photo and id together) varied over JSON scalars, or with one key missing.
RichInfos ==
  {[BaseInfo EXCEPT !.tags = JStr(s)] : s \in TagStrings}
    \cup {[BaseInfo EXCEPT !.tags = JNull]}
    \cup {[BaseInfo EXCEPT !.photo = p, !.id = i] :
            p \in Scalars, i \in {JInt(1), JInt(25), JStr(<<"7">>)}}
    \cup {[BaseInfo EXCEPT !.offline = v] : v \in Scalars \cup {JStr(<<" ", "1", "0">>)}}
    \cup {[BaseInfo EXCEPT !.groups = v] : v \in Scalars}
    \cup {[BaseInfo EXCEPT !.inline = v] : v \in Scalars}
    \cup {[BaseInfo EXCEPT !.developer_id = v] : v \in {JStr(<<"1", "2">>), JStr(<<"x">>), JNull}}
    \cup {[BaseInfo EXCEPT !.warn = v] : v \in {JStr(<<"spam">>), JBool(TRUE)}}
    \cup {[BaseInfo EXCEPT !.languages = v] :
            v \in {JStr(<<"E", "n", " ", "E", "s">>), JStr(<<>>)}}
    \cup {Without(BaseInfo, k) : k \in DOMAIN BaseInfo}

\* The elements a search `result` array is drawn from.
ListElements ==
  {JObj(BaseInfo),
   JObj([BaseInfo EXCEPT !.id = JInt(2), !.photo = JBool(FALSE)]),
   JObj([BaseInfo EXCEPT !.id = JInt(3), !.photo = JStr(<<"0">>),
                         !.tags = JStr(<<"#", "#", "b">>)]),
   JObj(Without([BaseInfo EXCEPT !.id = JInt(4)], "warn")),
   JNull}

Lists == UNION {[1..k -> ListElements] : k \in 0..MaxResults}

Absent == [t |-> "absent"]

\* The JSON object with those of the keys message, result, vote that are
\* not Absent.
Data(message, result, vote) ==
  [k \in {j \in {"message", "result", "vote"} :
            \/ j = "message" /\ message # Absent
            \/ j = "result" /\ result # Absent
            \/ j = "vote" /\ vote # Absent} |->
     CASE k = "message" -> message [] k = "result" -> result [] k = "vote" -> vote]

Messages == {Absent, BotNotFoundMessage, JStr(<<"other">>), JNull}

RichData(method) ==
  CASE method = "get_bot_id" ->
         {Data(Absent, JObj(i), Absent) : i \in RichInfos}
           \cup {Data(m, r, v) : m \in Messages,
                                 r \in {Absent, JObj(BaseInfo), JNull},
                                 v \in {Absent, JInt(3)}}
    [] method = "get_user_vote" ->
         {Data(m, r, v) : m \in Messages,
                          r \in {Absent, JInt(5), JStr(<<"5">>), JStr(<<"-", "1">>),
                                 JStr(<<"x">>), JNull, JBool(TRUE), JFloat(37)},
                          v \in {Absent, JStr(<<"x">>), JNull}}
    [] method \in {"search", "category_search"} ->
         {Data(m, r, Absent) :
            m \in {Absent, BotNotFoundMessage},
            r \in {Absent, JNull, JInt(0), JBool(FALSE), JStr(<<>>), JInt(5),
                   JStr(<<"x">>), JObj(BaseInfo)} \cup {JList(l) : l \in Lists}}
    [] OTHER -> {}

Failures(body) ==
  {NetErr("ConnectError"), NetErr("ReadTimeout"), Http(500, body), Http(404, body),
   Http(200, NotJson)}

\* Every way the GET of a call of `method` may complete.
RichResponses(method) ==
  IF method = "none" THEN {}
  ELSE
  {Http(200, Json(d)) : d \in RichData(method)}
    \cup Failures(Json(Data(Absent, JObj(BaseInfo), JInt(3))))
    \cup Failures(Json(Data(Absent, JList(<<JObj(BaseInfo)>>), Absent)))

\* A few of them, for the runs with several calls in flight.
FewResponses(method) ==
  IF method = "none" THEN {}
  ELSE
  {NetErr("ReadTimeout")} \cup
  CASE method = "get_bot_id" ->
         {Http(500, Json(Data(Absent, JObj(BaseInfo), Absent))),
          Http(200, Json(Data(BotNotFoundMessage, Absent, Absent))),
          Http(200, Json(Data(Absent, JObj(BaseInfo), Absent)))}
    [] method = "get_user_vote" ->
         {Http(200, Json(Data(Absent, JStr(<<"5">>), Absent))),
          Http(200, Json(Data(Absent, Absent, JStr(<<"x">>)))),
          Http(404, Json(Data(Absent, JInt(3), Absent)))}
    [] method \in {"search", "category_search"} ->
         {Http(200, Json(Data(Absent, JList(<<>>), Absent))),
          Http(200, Json(Data(Absent, JList(<<JObj(BaseInfo)>>), Absent))),
          Http(500, Json(Data(Absent, JList(<<JObj(BaseInfo)>>), Absent)))}
    [] OTHER -> {}

Usernames == {JStr(<<"vote">>)}
BotIds == {JInt(1)}
UserIds == {JInt(141691961)}
Queries == {JStr(<<"vote">>)}
Categories == {[t |-> "enum", m |-> "MUSIC"], [t |-> "str", s |-> <<"music">>]}

\* The arguments Client(...) is constructed with.
Constructions ==
  {ClientInit(API_BASE_URL, PHOTO_BASE_URL, PyNone, DefaultTimeout),
   ClientInit(<<"http://localhost:8080">>, <<"http://localhost:8080/img">>,
              JStr(<<"http://proxy:3128">>), 5)}

\* ------------------------------------------------------------- state
Calls == 1..MaxCalls

VARIABLES
  self,            \* the Client object: its configuration and self.client
  httpx_has_close, \* whether the installed httpx.AsyncClient defines close()
  pc,              \* pc[c]: "idle", "awaiting" (suspended at its GET) or "done"
  method,          \* method[c]: the facade method call c runs
  args,            \* args[c]: its arguments
  sent,            \* sent[c]: the GETs it has issued on the transport
  response,        \* response[c]: what its GET completed with
  outcome,         \* outcome[c]: what the call returned or raised
  close_pc,        \* close(): "idle", "awaiting" or "done"
  close_calls,     \* close() calls started so far
  close_outcome,   \* what the last close() returned or raised
  releases         \* times the transport handle has been released

vars ==
  <<self, httpx_has_close, pc, method, args, sent, response, outcome,
    close_pc, close_calls, close_outcome, releases>>

call_vars == <<pc, method, args, sent, response, outcome>>
close_vars == <<close_pc, close_calls, close_outcome, releases>>

NoOutcome == [status |-> "none"]
NoResponse == [t |-> "none"]

\* The state a constructed client is in: Client.__init__ has stored the
\* configuration and opened the transport handle; nothing was called yet.
Init ==
  /\ self \in Constructions
  /\ httpx_has_close \in BOOLEAN
  /\ pc = [c \in Calls |-> "idle"]
  /\ method = [c \in Calls |-> "none"]
  /\ args = [c \in Calls |-> Absent]
  /\ sent = [c \in Calls |-> <<>>]
  /\ response = [c \in Calls |-> NoResponse]
  /\ outcome = [c \in Calls |-> NoOutcome]
  /\ close_pc = "idle"
  /\ close_calls = 0
  /\ close_outcome = NoOutcome
  /\ releases = 0

\* A method that leaves one more "/" on self.photo_base_url each time.
SelfAfterCallRebased(m, obj) == [obj EXCEPT !.photo_base_url = @ \o <<"/">>]

\* self after a facade method has run to its end: the four methods assign
\* no attribute of self.
SelfAfterCall(m, obj) == obj

\* A facade method runs up to `await self.client.get(url, params=params)`.
Invoke(c, m, a) ==
  /\ pc[c] = "idle"
  /\ pc' = [pc EXCEPT ![c] = "awaiting"]
  /\ method' = [method EXCEPT ![c] = m]
  /\ args' = [args EXCEPT ![c] = a]
  /\ sent' = [sent EXCEPT ![c] = Append(@, Request(m, self.api_base_url, a))]
  /\ UNCHANGED <<self, httpx_has_close, response, outcome>>
  /\ UNCHANGED close_vars

GetBotId(c, username) ==
  /\ Invoke(c, "get_bot_id", [username |-> username])

GetUserVote(c, bot_id, user_id) ==
  /\ Invoke(c, "get_user_vote", [bot_id |-> bot_id, user_id |-> user_id])

Search(c, query) ==
  /\ Invoke(c, "search", [query |-> query])

CategorySearch(c, category) ==
  /\ Invoke(c, "category_search", [category |-> category])

\* The GET of call c completes with r and the method runs to its end: it
\* has no other suspension point.
Resume(c, r) ==
  /\ pc[c] = "awaiting"
  /\ pc' = [pc EXCEPT ![c] = "done"]
  /\ response' = [response EXCEPT ![c] = r]
  /\ outcome' = [outcome EXCEPT ![c] = Resumed(method[c], self.photo_base_url, r)]
  /\ self' = SelfAfterCall(method[c], self)
  /\ UNCHANGED <<httpx_has_close, method, args, sent>>
  /\ UNCHANGED close_vars

\* close() up to its await: self.client.close is looked up, and raises
\* AttributeError where httpx.AsyncClient has no such attribute.
CloseCall ==
  /\ close_pc \in {"idle", "done"}
  /\ close_calls < MaxCloseCalls
  /\ close_calls' = close_calls + 1
  /\ IF httpx_has_close
       THEN /\ close_pc' = "awaiting"
            /\ close_outcome' = NoOutcome
       ELSE /\ close_pc' = "done"
            /\ close_outcome' = [status |-> "raised", exc |-> "AttributeError"]
  /\ UNCHANGED <<self, httpx_has_close, releases>>
  /\ UNCHANGED call_vars

\* The awaited close of the transport completes.
CloseDone ==
  /\ close_pc = "awaiting"
  /\ close_pc' = "done"
  /\ close_outcome' = [status |-> "returned"]
  /\ self' = [self EXCEPT !.client.state = "closed"]
  /\ releases' = IF self.client.state = "open" THEN releases + 1 ELSE releases
  /\ UNCHANGED <<httpx_has_close, close_calls>>
  /\ UNCHANGED call_vars

\* The GET of call c completes in one of the few ways.
Completes(c) == \E r \in FewResponses(method[c]) : Resume(c, r)

\* The GET of the one call completes in any of the ways drawn.
CompletesAnyWay == \E r \in RichResponses(method[1]) : Resume(1, r)

Next ==
  \/ \E c \in Calls, u \in Usernames : GetBotId(c, u)
  \/ \E c \in Calls, b \in BotIds, u \in UserIds : GetUserVote(c, b, u)
  \/ \E c \in Calls, q \in Queries : Search(c, q)
  \/ \E c \in Calls, k \in Categories : CategorySearch(c, k)
  \/ \E c \in Calls : Completes(c)
  \/ CloseCall
  \/ CloseDone

\* One client, several calls in flight, close() among them.
Spec == Init /\ [][Next]_vars

\* One call at a time, its GET completing in every way drawn.
MapNext ==
  \/ \E u \in Usernames : GetBotId(1, u)
  \/ \E b \in BotIds, u \in UserIds : GetUserVote(1, b, u)
  \/ \E q \in Queries : Search(1, q)
  \/ \E k \in Categories : CategorySearch(1, k)
  \/ CompletesAnyWay

MapSpec == Init /\ [][MapNext]_vars

\* ------------------------------------------------------- properties
Done(c) == pc[c] = "done"

\* Call c got a success status and a JSON body, which it decoded.
HasData(c) ==
  /\ Done(c)
  /\ response[c].t = "http"
  /\ response[c].status \in 200..299
  /\ response[c].body.json

DataOf(c) == response[c].body.data

ReturnedValue(c) == Done(c) /\ outcome[c].status = "returned"

HasSentinel(c) ==
  /\ "message" \in DOMAIN DataOf(c)
  /\ DataOf(c)["message"] = JStr(<<"bot not found">>)

\* P(m, info, bot) of every Bot a call of method m returned, info being
\* the JSON object it was mapped from.
ForAllBots(P(_, _, _)) ==
  \A c \in Calls :
    ReturnedValue(c) =>
      /\ outcome[c].value.t = "bot" =>
           P(method[c], DataOf(c)["result"].o, outcome[c].value.bot)
      /\ outcome[c].value.t = "list" =>
           \A i \in 1..Len(outcome[c].value.l) :
             P(method[c], DataOf(c)["result"].l[i].o, outcome[c].value.l[i].bot)

\* The JSON scalars Python takes for false.
FalseScalars == {JNull, JBool(FALSE), JInt(0), JFloat(0), JStr(<<>>)}

\* C1: in get_bot_id and get_user_vote, a decoded body whose `message` is
\* "bot not found" makes the call raise BotNotFound with that message,
\* whatever other keys the body has; no Bot is built and the vote branches
\* are not run.
C1_SentinelRaisesBotNotFound ==
  \A c \in Calls :
    (/\ HasData(c)
     /\ method[c] \in {"get_bot_id", "get_user_vote"}
     /\ HasSentinel(c))
    => /\ outcome[c].status = "raised"
       /\ outcome[c].exc = "BotNotFound"
       /\ outcome[c].arg = JStr(<<"bot not found">>)
       /\ outcome[c].built = 0
       /\ ~outcome[c].interpreted

\* A get_bot_id whose body had the sentinel next to a result and a vote key.
C1_Witness ==
  \E c \in Calls :
    /\ HasData(c)
    /\ method[c] = "get_bot_id"
    /\ HasSentinel(c)
    /\ {"result", "vote"} \subseteq DOMAIN DataOf(c)
    /\ outcome[c].status = "raised"
    /\ outcome[c].exc = "BotNotFound"

\* What int() makes of the `result` values drawn; the others make it raise.
VoteInts ==
  {<<JInt(5), 5>>, <<JStr(<<"5">>), 5>>, <<JStr(<<"-", "1">>), -1>>,
   <<JBool(TRUE), 1>>, <<JFloat(37), 3>>}

\* C2: a get_user_vote body without the sentinel gives, in this order: with
\* a `result` key that value as an integer (int() raising when it is no
\* numeral), also when a `vote` key is there too; else with a `vote` key
\* False; else None.  Nothing else is ever returned.
C2_VoteTriState ==
  \A c \in Calls :
    (HasData(c) /\ method[c] = "get_user_vote" /\ ~HasSentinel(c)) =>
      /\ "result" \in DOMAIN DataOf(c) =>
           /\ \A p \in VoteInts :
                p[1] = DataOf(c)["result"] =>
                  /\ outcome[c].status = "returned"
                  /\ outcome[c].value = JInt(p[2])
           /\ (\A p \in VoteInts : p[1] # DataOf(c)["result"]) =>
                /\ outcome[c].status = "raised"
                /\ outcome[c].exc \in {"ValueError", "TypeError"}
      /\ ("result" \notin DOMAIN DataOf(c) /\ "vote" \in DOMAIN DataOf(c)) =>
           /\ outcome[c].status = "returned"
           /\ outcome[c].value = JBool(FALSE)
      /\ ("result" \notin DOMAIN DataOf(c) /\ "vote" \notin DOMAIN DataOf(c)) =>
           /\ outcome[c].status = "returned"
           /\ outcome[c].value = PyNone
      /\ outcome[c].status = "returned" =>
           \/ outcome[c].value.t = "int"
           \/ outcome[c].value = JBool(FALSE)
           \/ outcome[c].value = PyNone

\* A body with both keys, where result won.
C2_Witness ==
  \E c \in Calls :
    /\ HasData(c)
    /\ method[c] = "get_user_vote"
    /\ ~HasSentinel(c)
    /\ {"result", "vote"} \subseteq DOMAIN DataOf(c)
    /\ outcome[c].status = "returned"
    /\ outcome[c].value = JInt(5)

\* A JSON object with every key types.Bot(...) reads.
Complete(e) == e.t = "obj" /\ DOMAIN e.o = DOMAIN BaseInfo

\* C3: search and category_search return None, without error, when
\* `result` is empty or null; otherwise what they return is a list with one
\* Bot per element of `result`, in order, so never an empty one; and they
\* do return it when every element is a complete bot object.
C3_NoneOrOneBotPerElement ==
  \A c \in Calls :
    (/\ HasData(c)
     /\ method[c] \in {"search", "category_search"}
     /\ "result" \in DOMAIN DataOf(c))
    => LET res == DataOf(c)["result"]
       IN /\ res \in FalseScalars \cup {JList(<<>>)} =>
               /\ outcome[c].status = "returned"
               /\ outcome[c].value = PyNone
               /\ outcome[c].built = 0
          /\ (res \notin FalseScalars \cup {JList(<<>>)}
                /\ outcome[c].status = "returned") =>
               /\ res.t = "list"
               /\ outcome[c].value.t = "list"
               /\ Len(outcome[c].value.l) = Len(res.l)
               /\ Len(outcome[c].value.l) >= 1
               /\ outcome[c].built = Len(res.l)
               /\ \A i \in 1..Len(res.l) :
                    /\ outcome[c].value.l[i].t = "bot"
                    /\ outcome[c].value.l[i].bot.id = res.l[i].o.id
                    /\ outcome[c].value.l[i].bot.name = res.l[i].o.name
          /\ (/\ res.t = "list"
              /\ res.l # <<>>
              /\ \A i \in 1..Len(res.l) : Complete(res.l[i])) =>
               outcome[c].status = "returned"

\* A search that returned two Bots, in the order of the two elements.
C3_Witness ==
  \E c \in Calls :
    /\ HasData(c)
    /\ method[c] = "search"
    /\ outcome[c].status = "returned"
    /\ outcome[c].value.t = "list"
    /\ Len(outcome[c].value.l) = 2
    /\ outcome[c].value.l[1].bot.id = JInt(2)
    /\ outcome[c].value.l[2].bot.id = JInt(1)
    /\ DataOf(c)["result"].l[1].o.id = JInt(2)

\* The text of the ids drawn, as an f-string writes them.
IdText ==
  {<<JInt(1), <<"1">> >>, <<JInt(2), <<"2">> >>, <<JInt(3), <<"3">> >>,
   <<JInt(4), <<"4">> >>, <<JInt(25), <<"2", "5">> >>, <<JStr(<<"7">>), <<"7">> >>}

C4_PhotoUrl(m, info, bot) ==
  /\ bot.photo = info.photo
  /\ m \in {"get_bot_id", "search"} =>
       /\ bot.photo_url = PyNone <=> bot.photo \in FalseScalars
       /\ bot.photo_url # PyNone =>
            \E p \in IdText :
              /\ p[1] = bot.id
              /\ bot.photo_url =
                   JStr(self.photo_base_url \o <<"/">> \o p[2] \o <<".jpg">>)
  /\ m = "category_search" => bot.photo_url = PyNone

\* C4: a Bot returned by get_bot_id or search has a photo_url exactly when
\* its photo is true (in Python's sense: not None, False, 0 or empty), and
\* it is then photo_base_url + "/" + id + ".jpg"; a Bot returned by
\* category_search has none, whatever its photo.
C4_PhotoUrlIffPhoto == ForAllBots(C4_PhotoUrl)

\* get_bot_id returned the bot 25, which has a photo, with its photo_url.
C4_Witness ==
  \E c \in Calls :
    /\ ReturnedValue(c)
    /\ method[c] = "get_bot_id"
    /\ outcome[c].value.bot.id = JInt(25)
    /\ outcome[c].value.bot.photo = JBool(TRUE)
    /\ outcome[c].value.bot.photo_url =
         JStr(self.photo_base_url \o <<"/", "2", "5", ".jpg">>)

\* The places of s where a run of non-whitespace characters starts.
TokenStarts(s) ==
  {i \in 1..Len(s) : s[i] \notin Whitespace /\ (i = 1 \/ s[i - 1] \in Whitespace)}

\* The place where the run starting at i ends.
TokenEnd(s, i) ==
  CHOOSE j \in i..Len(s) :
    /\ \A k \in i..j : s[k] \notin Whitespace
    /\ j = Len(s) \/ s[j + 1] \in Whitespace

\* The whitespace-delimited tokens of s, in their order in s.
Tokens(s) ==
  [k \in 1..Cardinality(TokenStarts(s)) |->
     LET i == CHOOSE i \in TokenStarts(s) :
                Cardinality({j \in TokenStarts(s) : j < i}) = k - 1
     IN SubSeq(s, i, TokenEnd(s, i))]

\* How many "#" the token w starts with.
LeadingHashes(w) ==
  Cardinality({j \in 1..Len(w) : \A i \in 1..j : w[i] = "#"})

C5_StripOne(m, info, bot) ==
  /\ Len(bot.tags) = Len(Tokens(info.tags.s))
  /\ \A k \in 1..Len(bot.tags) :
       LET w == Tokens(info.tags.s)[k]
       IN bot.tags[k] = IF LeadingHashes(w) >= 1 THEN SubSeq(w, 2, Len(w)) ELSE w

\* C5 as the spec has it: the tags are the tokens of the raw string, in
\* order and with repetitions, each less exactly one leading "#" (a token
\* that starts with several loses the first only).
C5_TagsLoseOneHash == ForAllBots(C5_StripOne)

C5_StripAll(m, info, bot) ==
  /\ Len(bot.tags) = Len(Tokens(info.tags.s))
  /\ \A k \in 1..Len(bot.tags) :
       LET w == Tokens(info.tags.s)[k]
       IN bot.tags[k] = SubSeq(w, LeadingHashes(w) + 1, Len(w))

\* C5, amended: the tags are the tokens of the raw string, in order and
\* with repetitions, each less all of its leading "#" characters (a token
\* without one is unchanged; a token of "#" alone becomes empty).
C5_TagsLoseLeadingHashes == ForAllBots(C5_StripAll)

\* A Bot mapped from the raw tags "##a": its one tag is "a".
C5_Witness ==
  \E c \in Calls :
    /\ ReturnedValue(c)
    /\ method[c] = "get_bot_id"
    /\ DataOf(c)["result"].o.tags = JStr(<<"#", "#", "a">>)
    /\ outcome[c].value.bot.tags = << <<"a">> >>

\* C6: a call issues one GET and then returns or raises, never a second
\* GET; when the GET fails (the transport raises, or the status is not a
\* success) the call raises that error without decoding the body, building
\* a Bot or reading a vote.
C6_OneGetAndFailFast ==
  \A c \in Calls :
    /\ pc[c] = "idle" => sent[c] = <<>>
    /\ pc[c] \in {"awaiting", "done"} =>
         /\ Len(sent[c]) = 1
         /\ sent[c][1] = Request(method[c], self.api_base_url, args[c])
    /\ Done(c) => outcome[c].status \in {"returned", "raised"}
    /\ (Done(c) /\ response[c].t = "neterr") =>
         /\ outcome[c].status = "raised"
         /\ outcome[c].exc = response[c].exc
         /\ ~outcome[c].decoded
         /\ outcome[c].built = 0
         /\ ~outcome[c].interpreted
    /\ (Done(c) /\ response[c].t = "http" /\ response[c].status \in {404, 500}) =>
         /\ outcome[c].status = "raised"
         /\ outcome[c].exc = "HTTPStatusError"
         /\ ~outcome[c].decoded
         /\ outcome[c].built = 0
         /\ ~outcome[c].interpreted

\* A get_bot_id whose GET came back 500 with a bot in its body.
C6_Witness ==
  \E c \in Calls :
    /\ Done(c)
    /\ method[c] = "get_bot_id"
    /\ response[c].t = "http"
    /\ response[c].status = 500
    /\ "result" \in DOMAIN response[c].body.data
    /\ outcome[c].status = "raised"
    /\ Len(sent[c]) = 1

\* C7: the handle is open once the client is constructed, and a close()
\* that has completed has returned without error and left the handle
\* released, released once.
C7_CloseReleasesHandle ==
  /\ close_calls = 0 => self.client.state = "open"
  /\ (close_pc = "done" /\ close_calls = 1) =>
       /\ close_outcome.status = "returned"
       /\ self.client.state = "closed"
       /\ releases = 1

C8_WarnOptional(c, e) ==
  (e.t = "obj" /\ DOMAIN e.o = DOMAIN BaseInfo \ {"warn"}) =>
    /\ outcome[c].status = "returned"
    /\ outcome[c].value.t = "bot" => outcome[c].value.bot.warn = PyNone
    /\ outcome[c].value.t = "list" =>
         \A i \in 1..Len(outcome[c].value.l) :
           "warn" \notin DOMAIN DataOf(c)["result"].l[i].o =>
             outcome[c].value.l[i].bot.warn = PyNone

\* C8: a bot object with every field but `warn` maps, on all three paths,
\* to a Bot whose warn is None; the call does not fail for it.
C8_MissingWarnMapsToNone ==
  \A c \in Calls :
    (HasData(c) /\ "result" \in DOMAIN DataOf(c)) =>
      /\ (method[c] = "get_bot_id" /\ ~HasSentinel(c)) =>
           C8_WarnOptional(c, DataOf(c)["result"])
      /\ (/\ method[c] \in {"search", "category_search"}
          /\ DataOf(c)["result"].t = "list"
          /\ \A i \in 1..Len(DataOf(c)["result"].l) :
               DataOf(c)["result"].l[i].t = "obj") =>
           \A i \in 1..Len(DataOf(c)["result"].l) :
             (\A j \in 1..Len(DataOf(c)["result"].l) :
                j # i => Complete(DataOf(c)["result"].l[j]))
             => C8_WarnOptional(c, DataOf(c)["result"].l[i])

\* The raw `offline` values drawn that int() takes to a non-zero integer,
\* and those it takes to zero; int() raises on the others.
OfflineTrue ==
  {JStr(<<"1">>), JInt(1), JInt(2), JBool(TRUE), JFloat(15), JStr(<<" ", "1", "0">>)}
OfflineFalse == {JStr(<<"0">>), JInt(0), JBool(FALSE), JFloat(0)}

C9_Coercions(m, info, bot) ==
  /\ bot.offline \in BOOLEAN
  /\ info.offline \in OfflineTrue \cup OfflineFalse
  /\ bot.offline <=> info.offline \in OfflineTrue
  /\ bot.groups <=> info.groups \notin FalseScalars
  /\ bot.inline <=> info.inline \notin FalseScalars
  /\ info.groups = JStr(<<"0">>) => bot.groups
  /\ (info = BaseInfo /\ m = "get_bot_id") =>
       /\ ~bot.offline
       /\ ~bot.groups
       /\ bot.inline
       /\ bot.photo_url = JStr(self.photo_base_url \o <<"/", "1", ".jpg">>)

\* C9: on the three paths, offline is whether int() of the raw value is
\* non-zero ("0" and 0 give False, "1" and 1 True), and groups and inline
\* are bool() of the raw value, with no int() in between (0 gives False, 1
\* True, and the string "0" True); the docstring's bot gives offline False,
\* groups False, inline True.
C9_OfflineViaIntOthersDirect == ForAllBots(C9_Coercions)

\* A Bot whose raw groups was the string "0": groups True, while its raw
\* offline "0" gave offline False.
C9_Witness ==
  \E c \in Calls :
    /\ ReturnedValue(c)
    /\ method[c] = "get_bot_id"
    /\ DataOf(c)["result"].o.groups = JStr(<<"0">>)
    /\ DataOf(c)["result"].o.offline = JStr(<<"0">>)
    /\ outcome[c].value.bot.groups
    /\ ~outcome[c].value.bot.offline

\* Calls with the same method, arguments and response have the same outcome.
SameInSameOut ==
  \A c, d \in Calls :
    (/\ Done(c)
     /\ Done(d)
     /\ method[c] = method[d]
     /\ args[c] = args[d]
     /\ response[c] = response[d])
    => outcome[c] = outcome[d]

\* A step of a facade call: it starts, or its GET completes.
CallStep == pc' # pc

\* C10: however the calls on one client interleave, no step of a call
\* writes the configuration or self.client, and a call's outcome depends
\* on its method, arguments and response only, not on the other calls or
\* on the order they completed in.
C10_CallsShareNothing ==
  [](SameInSameOut) /\ [][CallStep => self' = self]_vars

\* Two calls in flight together that got the same response, both done and
\* both with the same Bot, next to the same configuration as at the start.
C10_Witness ==
  \E c, d \in Calls :
    /\ c # d
    /\ Done(c)
    /\ Done(d)
    /\ method[c] = "get_bot_id"
    /\ method[d] = "get_bot_id"
    /\ response[c] = response[d]
    /\ outcome[c].status = "returned"
    /\ outcome[d] = outcome[c]
    /\ self \in Constructions

====
